---- MODULE Spec2Model ----
(***************************************************************************)
(* Model of car_wash/dbpool.py: the bounded connection pools RODBPool and  *)
(* RWDBPool and their scoped accessors connection() / transaction().       *)
(*                                                                         *)
(* One pool object is modelled; `kind` says which of the two classes it    *)
(* is.  The two singletons (ro_db_pool, rw_db_pool) share no state, so     *)
(* each is covered by one of the two initial states.                       *)
(*                                                                         *)
(* Each thread runs scoped sessions on the pool.  One action is one        *)
(* statement (or one lock-protected statement) of the source; the          *)
(* unlocked append of _put_connection interleaves freely with the locked   *)
(* section of _get_connection, as in the code.                             *)
(***************************************************************************)
EXTENDS Naturals, Integers, Sequences, FiniteSets

\* ---------------------------------------------------------------- bounds
\* Number of concurrent caller threads.
NumThreads == 2
\* The pool_size constructor argument (self._pool_size).
pool_size == 2

Threads == 1..NumThreads

\* `connection = None` (line 66 / 138) and "no thread holds the lock".
None == 0

\* Outcomes of the caller's unit of work (the body of the with statement):
\*   "ok"         the body finished normally,
\*   "DBError"    the body raised a psycopg2.Error (a database failure),
\*   "LogicError" the body raised an exception that is no psycopg2.Error
\*                (a caller-side logic error such as ValueError).
WorkOutcomes == {"ok", "DBError", "LogicError"}

\* Exceptions the caller of the accessor can observe:
\*   "none"         no exception,
\*   "InvalidQuery" psycopg2.Error('Invalid query.') raised at line 98 / 170,
\*   "DBError"      an original psycopg2.Error passed through untranslated,
\*   "LogicError"   an original non-psycopg2 exception passed through,
\*   "ConnectError" the exception of psycopg2.connect (line 59 / 131).
Exceptions == {"none", "InvalidQuery", "DBError", "LogicError", "ConnectError"}

VARIABLES
    kind,           \* "ro": the pool is an RODBPool; "rw": an RWDBPool
    _pool,          \* self._pool: list of idle connections
    _conn_created,  \* self._conn_created
    _lock,          \* self._lock: None or the thread holding it
    opened,         \* connections psycopg2.connect has returned so far
    closed,         \* connections on which close() has been called
    pc,             \* per thread: position in the code
    connection,     \* per thread: local `connection` / `conn`
    cursor_,        \* per thread: local `cursor_`: "none", "open", "closed"
    work,           \* per thread: outcome of the unit of work, or "none"
    commits,        \* per thread: number of conn.commit() calls this session
    puts,           \* per thread: number of _put_connection calls this session
    closes,         \* per thread: number of conn.close() calls this session
    exc,            \* per thread: exception propagating to / seen by the caller
    waited          \* per thread: the _get_connection call in progress, or just
                    \* returned, has logged 'No connections available' and slept

vars == <<kind, _pool, _conn_created, _lock, opened, closed, pc, connection,
          cursor_, work, commits, puts, closes, exc, waited>>

poolVars == <<_pool, _conn_created, _lock, opened, closed>>
sessVars == <<cursor_, work, commits, puts, closes, exc, waited>>

\* ------------------------------------------------------- pure decisions

\* Line 69 / 141: `if len(self._pool) > 0`.
HasIdle(p) == Len(p) > 0

\* Line 70 / 142: the value returned by list.pop(): the last element.
PopValue(p) == p[Len(p)]

\* What list.pop() would leave if it did not remove the element.
PopRestKeep(p) == p

\* Line 70 / 142: the list after list.pop(): the last element is removed.
PopRest(p) == SubSeq(p, 1, Len(p) - 1)

\* A capacity test that is off by one.
CanCreateOffByOne(n) == n <= pool_size

\* Line 72 / 144: `if self._conn_created < self._pool_size`.
CanCreate(n) == n < pool_size

\* A counter that is advanced twice for one connection.
IncrCreatedTwice(n) == n + 2

\* Line 74 / 146: `self._conn_created += 1`.
IncrCreated(n) == n + 1

\* psycopg2.connect returns a new connection object, distinct from all
\* earlier ones (line 59 / 131); connections are numbered in creation order.
NewConnection(o) == Cardinality(o) + 1

\* A loop that returns after one sleep even without a connection.
LoopAgainNever(c) == FALSE

\* Line 67 / 139: `while not connection`.
LoopAgain(c) == c = None

\* Line 83 / 155: `self._pool.append(conn)`.
PutConnection(p, c) == Append(p, c)

\* Line 95 / 167: `except psycopg2.Error`: only database errors are caught.
Caught(e) == e = "DBError"

\* An accessor that commits in both classes.
CommitsAlways(k) == TRUE

\* An accessor that never commits.
CommitsNever(k) == FALSE

\* Lines 99-100 against 171-173: only RWDBPool.transaction calls commit.
Commits(k) == k = "rw"

\* An except clause that hands the closed connection back to the pool.
PoolAfterExceptPut(p, c) == Append(p, c)

\* Lines 95-98 / 167-170: the except clause closes the connection and does
\* not call _put_connection: the idle list is left as it is.
PoolAfterExcept(p, c) == p

\* An except clause that gives the slot of the closed connection back.
CreatedAfterExceptDecr(n) == n - 1

\* Lines 95-98 / 167-170: the except clause does not touch _conn_created.
CreatedAfterExcept(n) == n

\* A with block that leaves the lock with its holder.
WithExitKeep(holder) == holder

\* End of `with self._lock:` (line 68 / 140), on the normal path and when
\* an exception leaves the block: the lock is released.
WithExit(holder) == None

\* A finally clause that leaves the cursor as it is.
FinallyCursorKeep(cur) == cur

\* Line 102 / 175: `cursor_.close()` in the finally clause.
FinallyCursor(cur) == "closed"

\* ------------------------------------------------------------ the state

TypeOK ==
    /\ kind \in {"ro", "rw"}
    /\ _pool \in Seq(Nat)
    /\ _conn_created \in Nat
    /\ _lock \in {None} \cup Threads
    /\ opened \subseteq Nat
    /\ closed \subseteq opened
    /\ pc \in [Threads -> {"idle", "get", "len", "pop", "cmp", "create", "incr",
                           "sleep", "unlock", "cursor", "work", "except",
                           "commit", "put", "finally", "raised", "done"}]
    /\ connection \in [Threads -> Nat]
    /\ cursor_ \in [Threads -> {"none", "open", "closed"}]
    /\ work \in [Threads -> WorkOutcomes \cup {"none"}]
    /\ commits \in [Threads -> Nat]
    /\ puts \in [Threads -> Nat]
    /\ closes \in [Threads -> Nat]
    /\ exc \in [Threads -> Exceptions]
    /\ waited \in [Threads -> BOOLEAN]

\* __init__ (lines 36-55 / 108-127): empty pool, nothing created, lock free.
Init ==
    /\ kind \in {"ro", "rw"}
    /\ _pool = <<>>
    /\ _conn_created = 0
    /\ _lock = None
    /\ opened = {}
    /\ closed = {}
    /\ pc = [t \in Threads |-> "idle"]
    /\ connection = [t \in Threads |-> None]
    /\ cursor_ = [t \in Threads |-> "none"]
    /\ work = [t \in Threads |-> "none"]
    /\ commits = [t \in Threads |-> 0]
    /\ puts = [t \in Threads |-> 0]
    /\ closes = [t \in Threads |-> 0]
    /\ exc = [t \in Threads |-> "none"]
    /\ waited = [t \in Threads |-> FALSE]

\* ---------------------------------------------------------- the actions

\* A caller enters `with pool.connection()` / `with pool.transaction()`:
\* line 91 / 163 calls _get_connection, whose line 66 sets connection = None.
StartSession(t) ==
    /\ pc[t] \in {"idle", "done"}
    /\ pc' = [pc EXCEPT ![t] = "get"]
    /\ connection' = [connection EXCEPT ![t] = None]
    /\ cursor_' = [cursor_ EXCEPT ![t] = "none"]
    /\ work' = [work EXCEPT ![t] = "none"]
    /\ commits' = [commits EXCEPT ![t] = 0]
    /\ puts' = [puts EXCEPT ![t] = 0]
    /\ closes' = [closes EXCEPT ![t] = 0]
    /\ exc' = [exc EXCEPT ![t] = "none"]
    /\ waited' = [waited EXCEPT ![t] = FALSE]
    /\ UNCHANGED <<kind, poolVars>>

\* Line 68 / 140: `with self._lock:` blocks until the lock is free.
AcquireLock(t) ==
    /\ pc[t] = "get"
    /\ _lock = None
    /\ _lock' = t
    /\ pc' = [pc EXCEPT ![t] = "len"]
    /\ UNCHANGED <<kind, _pool, _conn_created, opened, closed, connection, sessVars>>

\* Line 69 / 141: test the length of the pool.
CheckLen(t) ==
    /\ pc[t] = "len"
    /\ pc' = [pc EXCEPT ![t] = IF HasIdle(_pool) THEN "pop" ELSE "cmp"]
    /\ UNCHANGED <<kind, poolVars, connection, sessVars>>

\* Line 70 / 142: connection = self._pool.pop().
Pop(t) ==
    /\ pc[t] = "pop"
    /\ connection' = [connection EXCEPT ![t] = PopValue(_pool)]
    /\ _pool' = PopRest(_pool)
    /\ pc' = [pc EXCEPT ![t] = "unlock"]
    /\ UNCHANGED <<kind, _conn_created, _lock, opened, closed, sessVars>>

\* Line 72 / 144: compare the created count with the pool size.
CheckCreated(t) ==
    /\ pc[t] = "cmp"
    /\ pc' = [pc EXCEPT ![t] = IF CanCreate(_conn_created) THEN "create" ELSE "sleep"]
    /\ UNCHANGED <<kind, poolVars, connection, sessVars>>

\* Line 73 / 145: connection = self._create_connection(), psycopg2.connect
\* succeeds and returns a new connection.
CreateOk(t) ==
    /\ pc[t] = "create"
    /\ connection' = [connection EXCEPT ![t] = NewConnection(opened)]
    /\ opened' = opened \cup {NewConnection(opened)}
    /\ pc' = [pc EXCEPT ![t] = "incr"]
    /\ UNCHANGED <<kind, _pool, _conn_created, _lock, closed, sessVars>>

\* Line 73 / 145: psycopg2.connect raises.  The exception leaves the with
\* block (the lock is released) and is on its way out of _get_connection.
CreateFail(t) ==
    /\ pc[t] = "create"
    /\ exc' = [exc EXCEPT ![t] = "ConnectError"]
    /\ _lock' = WithExit(_lock)
    /\ pc' = [pc EXCEPT ![t] = "raised"]
    /\ UNCHANGED <<kind, _pool, _conn_created, opened, closed, connection,
                   cursor_, work, commits, puts, closes, waited>>

\* Line 91 / 163: the call of _get_connection lies outside the try
\* statement, so the exception of psycopg2.connect leaves the accessor
\* unchanged and control is back with the caller.
Propagate(t) ==
    /\ pc[t] = "raised"
    /\ pc' = [pc EXCEPT ![t] = "done"]
    /\ UNCHANGED <<kind, poolVars, connection, sessVars>>

\* Line 74 / 146: self._conn_created += 1.
Incr(t) ==
    /\ pc[t] = "incr"
    /\ _conn_created' = IncrCreated(_conn_created)
    /\ pc' = [pc EXCEPT ![t] = "unlock"]
    /\ UNCHANGED <<kind, _pool, _lock, opened, closed, connection, sessVars>>

\* Lines 76-77 / 148-149: log and time.sleep(0.1), inside the with block.
Sleep(t) ==
    /\ pc[t] = "sleep"
    /\ waited' = [waited EXCEPT ![t] = TRUE]
    /\ pc' = [pc EXCEPT ![t] = "unlock"]
    /\ UNCHANGED <<kind, poolVars, connection, cursor_, work, commits, puts, closes, exc>>

\* End of the with block (the lock is released), then the loop test of
\* line 67 / 139 and, when it ends the loop, `return connection` (79 / 151).
Unlock(t) ==
    /\ pc[t] = "unlock"
    /\ _lock' = WithExit(_lock)
    /\ pc' = [pc EXCEPT ![t] = IF LoopAgain(connection[t]) THEN "get" ELSE "cursor"]
    /\ UNCHANGED <<kind, _pool, _conn_created, opened, closed, connection, sessVars>>

\* Line 92 / 164: cursor_ = conn.cursor().  The _get_connection call is
\* over, and with it the record of whether it slept.
Cursor(t) ==
    /\ pc[t] = "cursor"
    /\ cursor_' = [cursor_ EXCEPT ![t] = "open"]
    /\ pc' = [pc EXCEPT ![t] = "work"]
    /\ waited' = [waited EXCEPT ![t] = FALSE]
    /\ UNCHANGED <<kind, poolVars, connection, work, commits, puts, closes, exc>>

\* Line 94 / 166: `yield cursor_`: the caller's unit of work runs and ends
\* with outcome o.  A normal end goes to the else clause; an exception goes
\* to the except clause when it is a psycopg2.Error and otherwise straight
\* to the finally clause, still propagating.
Work(t, o) ==
    /\ pc[t] = "work"
    /\ work' = [work EXCEPT ![t] = o]
    /\ IF o = "ok"
         THEN /\ pc' = [pc EXCEPT ![t] = IF Commits(kind) THEN "commit" ELSE "put"]
              /\ exc' = exc
         ELSE /\ pc' = [pc EXCEPT ![t] = IF Caught(o) THEN "except" ELSE "finally"]
              /\ exc' = [exc EXCEPT ![t] = o]
    /\ UNCHANGED <<kind, poolVars, connection, cursor_, commits, puts, closes, waited>>

\* Lines 96-98 / 168-170: log, conn.close(), raise psycopg2.Error('Invalid
\* query.'), which replaces the exception that was caught.
Except(t) ==
    /\ pc[t] = "except"
    /\ closed' = closed \cup {connection[t]}
    /\ closes' = [closes EXCEPT ![t] = @ + 1]
    /\ _pool' = PoolAfterExcept(_pool, connection[t])
    /\ _conn_created' = CreatedAfterExcept(_conn_created)
    /\ exc' = [exc EXCEPT ![t] = "InvalidQuery"]
    /\ pc' = [pc EXCEPT ![t] = "finally"]
    /\ UNCHANGED <<kind, _lock, opened, connection,
                   cursor_, work, commits, puts, waited>>

\* Line 172: conn.commit() in the else clause of RWDBPool.transaction.  When
\* it raises, the exception is not handled by the except clause of the same
\* try statement: it goes to the finally clause and on to the caller.
Commit(t, ok) ==
    /\ pc[t] = "commit"
    /\ commits' = [commits EXCEPT ![t] = @ + 1]
    /\ IF ok
         THEN /\ pc' = [pc EXCEPT ![t] = "put"]
              /\ exc' = exc
         ELSE /\ pc' = [pc EXCEPT ![t] = "finally"]
              /\ exc' = [exc EXCEPT ![t] = "DBError"]
    /\ UNCHANGED <<kind, poolVars, connection, cursor_, work, puts, closes, waited>>

\* Line 100 / 173: self._put_connection(conn), i.e. line 83 / 155, which
\* appends to the list without taking the lock.  list.append is a single
\* atomic operation of the interpreter, so the append itself is one step;
\* it can fall between any two steps of another thread's locked section.
Put(t) ==
    /\ pc[t] = "put"
    /\ _pool' = PutConnection(_pool, connection[t])
    /\ puts' = [puts EXCEPT ![t] = @ + 1]
    /\ pc' = [pc EXCEPT ![t] = "finally"]
    /\ UNCHANGED <<kind, _conn_created, _lock, opened, closed, connection,
                   cursor_, work, commits, closes, exc, waited>>

\* Line 102 / 175: the finally clause closes the cursor; then the context
\* manager returns control (and the pending exception, if any) to the caller.
Finally(t) ==
    /\ pc[t] = "finally"
    /\ cursor_' = [cursor_ EXCEPT ![t] = FinallyCursor(cursor_[t])]
    /\ pc' = [pc EXCEPT ![t] = "done"]
    /\ UNCHANGED <<kind, poolVars, connection, work, commits, puts, closes, exc, waited>>

Next ==
    \E t \in Threads :
        \/ StartSession(t)
        \/ AcquireLock(t)
        \/ CheckLen(t)
        \/ Pop(t)
        \/ CheckCreated(t)
        \/ CreateOk(t)
        \/ CreateFail(t)
        \/ Propagate(t)
        \/ Incr(t)
        \/ Sleep(t)
        \/ Unlock(t)
        \/ Cursor(t)
        \/ \E o \in WorkOutcomes : Work(t, o)
        \/ Except(t)
        \/ \E ok \in BOOLEAN : Commit(t, ok)
        \/ Put(t)
        \/ Finally(t)

Spec == Init /\ [][Next]_vars

\* The steps of thread t inside a session.  Starting a session is the
\* caller's choice and is not included.
ThreadStep(t) ==
    \/ AcquireLock(t)
    \/ CheckLen(t)
    \/ Pop(t)
    \/ CheckCreated(t)
    \/ CreateOk(t)
    \/ CreateFail(t)
    \/ Propagate(t)
    \/ Incr(t)
    \/ Sleep(t)
    \/ Unlock(t)
    \/ Cursor(t)
    \/ \E o \in WorkOutcomes : Work(t, o)
    \/ Except(t)
    \/ \E ok \in BOOLEAN : Commit(t, ok)
    \/ Put(t)
    \/ Finally(t)

\* The same program with a fair scheduler: a thread that can take a step
\* inside its session is not suspended forever (every time.sleep ends, every
\* statement and every unit of work terminates).  The lock is not fair: a
\* thread waiting at line 68 / 140 may lose every race for it.
FairSpec == Init /\ [][Next]_vars /\ \A t \in Threads : WF_vars(ThreadStep(t))

\* ------------------------------------------------- derived state notions

\* Connections that exist and have not been closed.
Live == opened \ closed

\* Number of times connection c occurs in the idle list.
IdleCount(c) == Cardinality({i \in DOMAIN _pool : _pool[i] = c})

\* Thread t has borrowed connection c: _get_connection has handed it out
\* (lines 70, 73) and this session has not yet put it back (line 100 / 173)
\* nor returned control to the caller.
Holds(t, c) ==
    /\ connection[t] = c
    /\ pc[t] \in {"incr", "unlock", "cursor", "work", "except", "commit", "put", "finally"}
    /\ puts[t] = 0

\* Thread t is inside _get_connection and has no connection yet.
Waiting(t) ==
    /\ pc[t] \in {"get", "len", "pop", "cmp", "create", "sleep", "unlock"}
    /\ connection[t] = None

\* The pool is exhausted: nothing idle and nothing left to create.
Exhausted == ~HasIdle(_pool) /\ _conn_created = pool_size

\* The session of thread t has returned control to the caller after its
\* unit of work ran (so it had a connection and a cursor).
Returned(t) == pc[t] = "done" /\ work[t] # "none"

\* ------------------------------------------------------------ the claims

\* C1 (capacity invariant): in every reachable state 0 <= created <=
\* capacity, and the number of live connections (returned by the factory
\* and not closed) never exceeds capacity.
C1_CapacityInvariant ==
    /\ _conn_created \in 0..pool_size
    /\ Cardinality(Live) <= pool_size

\* C1 witness: the pool is at capacity with every connection live, while a
\* further caller is refused a new connection and sleeps.
C1_Witness ==
    /\ _conn_created = pool_size
    /\ Cardinality(Live) = pool_size
    /\ \E t \in Threads : pc[t] = "sleep"

\* C2 (exclusive ownership): every created connection is, counted together,
\* at most once in the idle list or borrowed by at most one caller; so no
\* two sessions hold the same connection, and a borrowed connection is not
\* idle.
C2_ExclusiveOwnership ==
    \A c \in opened :
        IdleCount(c) + Cardinality({t \in Threads : Holds(t, c)}) <= 1

\* C2 witness: a caller runs its unit of work on a connection that another
\* caller's session has released, while that other session is still about
\* to close its cursor.
C2_Witness ==
    \E t, u \in Threads :
        /\ t # u
        /\ pc[t] = "work" /\ Holds(t, connection[t])
        /\ pc[u] = "finally" /\ puts[u] = 1
        /\ connection[t] = connection[u]

\* C3 (discard on failure), as claimed: whenever the unit of work raised,
\* whatever the cause, the session has closed its connection, has not put
\* it back into idle, and created still counts it.
C3_DiscardOnAnyFailure ==
    \A t \in Threads :
        (Returned(t) /\ work[t] \in {"DBError", "LogicError"}) =>
            /\ closes[t] = 1
            /\ connection[t] \in closed
            /\ puts[t] = 0
            /\ IdleCount(connection[t]) = 0
            /\ _conn_created >= connection[t]

\* C4 (commit failure handled like a work failure), as claimed: in the
\* read-write accessor, when the unit of work succeeded and commit raised,
\* the connection is closed, is not in idle, and the caller sees the
\* uniform invalid-query error.
C4_CommitFailureDiscards ==
    \A t \in Threads :
        (kind = "rw" /\ Returned(t) /\ work[t] = "ok" /\ exc[t] # "none") =>
            /\ closes[t] = 1
            /\ connection[t] \in closed
            /\ puts[t] = 0
            /\ IdleCount(connection[t]) = 0
            /\ exc[t] = "InvalidQuery"

\* C5 (uniform error), as claimed: every failure a session raises to its
\* caller after the unit of work started (database error, caller-side
\* logic error, commit error) is the one invalid-query error.
C5_UniformError ==
    \A t \in Threads :
        (Returned(t) /\ exc[t] # "none") => exc[t] = "InvalidQuery"

\* C6 (commit on success), as claimed: in the read-write accessor every
\* session whose unit of work completed without error has called commit
\* exactly once and has appended the connection to idle exactly once.
C6_CommitAndReleaseOnSuccess ==
    \A t \in Threads :
        (kind = "rw" /\ Returned(t) /\ work[t] = "ok") =>
            commits[t] = 1 /\ puts[t] = 1

\* C6, amended: in the read-write accessor every session whose unit of work
\* completed without error calls commit exactly once, while it still holds
\* the connection exclusively and before any release; the connection is
\* appended to idle exactly once when that commit succeeds and not at all
\* when it raises.
C6_CommitThenReleaseIfCommitted ==
    kind = "rw" =>
        \A t \in Threads :
            /\ puts[t] <= commits[t]
            /\ commits[t] <= 1
            /\ commits[t] = 1 => work[t] = "ok"
            /\ pc[t] = "commit" =>
                  /\ commits[t] = 0 /\ Holds(t, connection[t])
                  /\ IdleCount(connection[t]) = 0
                  /\ \A u \in Threads \ {t} : ~Holds(u, connection[t])
            /\ (Returned(t) /\ work[t] = "ok") =>
                  /\ commits[t] = 1
                  /\ puts[t] = (IF exc[t] = "none" THEN 1 ELSE 0)

\* C6 witness: one read-write session has committed and released its
\* connection, and another one has returned after its commit raised.
C6_Witness ==
    /\ kind = "rw"
    /\ \E t, u \in Threads :
        /\ Returned(t) /\ work[t] = "ok" /\ exc[t] = "none"
        /\ commits[t] = 1 /\ puts[t] = 1
        /\ Returned(u) /\ work[u] = "ok" /\ exc[u] = "DBError"
        /\ commits[u] = 1 /\ puts[u] = 0

\* C7 (cursor cleanup): whenever a session that obtained a cursor has
\* returned control to the caller, on whichever path, its cursor is closed.
C7_CursorClosedOnExit ==
    \A t \in Threads :
        (pc[t] = "done" /\ exc[t] # "ConnectError") => cursor_[t] = "closed"

\* C7 witness: two sessions have returned with their cursors closed on the
\* two exit paths that bypass the except clause: one after its commit
\* raised, one after its unit of work raised an exception that is not a
\* psycopg2.Error.
C7_Witness ==
    \E t, u \in Threads :
        /\ Returned(t) /\ work[t] = "ok" /\ exc[t] = "DBError"
        /\ Returned(u) /\ work[u] = "LogicError" /\ exc[u] = "LogicError"
        /\ cursor_[t] = "closed" /\ cursor_[u] = "closed"

\* C8 (read-only success path): in the read-only accessor no session ever
\* calls commit, and a session whose unit of work completed without error
\* has appended its connection to idle exactly once, has not closed it and
\* raises nothing.
C8_ReadOnlySuccess ==
    kind = "ro" =>
        \A t \in Threads :
            /\ commits[t] = 0
            /\ (Returned(t) /\ work[t] = "ok") =>
                  puts[t] = 1 /\ closes[t] = 0 /\ exc[t] = "none"

\* C8 witness: a read-only session has returned successfully and its
\* connection is open and back in the idle list, once.
C8_Witness ==
    /\ kind = "ro"
    /\ \E t \in Threads :
        /\ Returned(t) /\ work[t] = "ok" /\ puts[t] = 1
        /\ connection[t] \notin closed
        /\ IdleCount(connection[t]) = 1

\* C9 (no commit after failure), as claimed: in the read-write accessor a
\* session whose unit of work raised has never called commit and ends with
\* the connection closed, absent from idle, and the caller seeing the
\* uniform invalid-query error.
C9_NoCommitAfterFailure ==
    \A t \in Threads :
        (kind = "rw" /\ Returned(t) /\ work[t] \in {"DBError", "LogicError"}) =>
            /\ commits[t] = 0
            /\ closes[t] = 1
            /\ connection[t] \in closed
            /\ IdleCount(connection[t]) = 0
            /\ exc[t] = "InvalidQuery"

\* C10 (blocking at exhaustion): while idle is empty and created equals
\* capacity, no step takes a caller out of acquire, neither with a
\* connection nor with an exception; the only step that ends the
\* exhaustion is another caller's release; a caller that obtains a
\* connection when created equals capacity takes it from idle; and created
\* never exceeds capacity.
C10_BlocksWhileExhausted ==
    [][ /\ \A t \in Threads : (Exhausted /\ Waiting(t)) => Waiting(t)'
        /\ (Exhausted /\ ~Exhausted') =>
              \E u \in Threads : pc[u] = "put" /\ pc'[u] = "finally"
                                 /\ _pool' = Append(_pool, connection[u])
        /\ \A t \in Threads :
              (connection[t] = None /\ connection'[t] # None
                 /\ _conn_created = pool_size) =>
                  HasIdle(_pool) /\ connection'[t] = _pool[Len(_pool)]
        /\ _conn_created' <= pool_size ]_vars

\* C10 witness: with created at capacity, a caller that had to sleep in
\* acquire has been handed a connection that another caller released.
C10_Witness ==
    /\ _conn_created = pool_size
    /\ \E t, u \in Threads :
        /\ t # u
        /\ waited[t] /\ pc[t] = "cursor"
        /\ pc[u] \in {"finally", "done"} /\ puts[u] = 1
        /\ connection[u] = connection[t]

\* A connection can be had: one is idle, or one may still be created.
Available == HasIdle(_pool) \/ _conn_created < pool_size

\* _get_connection has just returned a connection to thread t (line 79 /
\* 151); the thread is about to run line 92 / 164.
AcquireReturned(t) == pc[t] = "cursor" /\ connection[t] # None

\* The acquire of thread t is ending with the exception of psycopg2.connect:
\* the exception has left _get_connection and is passing line 91 / 163 on
\* its way to the caller.
ConstructionRaising(t) == pc[t] = "raised" /\ exc[t] = "ConnectError"

\* The session of thread t ended in _get_connection with the exception of
\* psycopg2.connect, and the caller has it.
ConstructionFailed(t) == pc[t] = "done" /\ exc[t] = "ConnectError"

\* C11 (progress of acquire), as claimed: under a fair scheduler, whenever a
\* caller waits in acquire and a connection is available (idle non-empty or
\* created < capacity), eventually some caller's acquire returns a
\* connection.
C11_AcquireProgress ==
    ((\E t \in Threads : Waiting(t)) /\ Available)
        ~> (\E u \in Threads : AcquireReturned(u))

\* C11, amended: under a fair scheduler, whenever a caller waits in acquire
\* and a connection is available, eventually some caller's acquire returns
\* a connection or ends with the error of the connection factory.  Both
\* outcomes are the passing moments right after _get_connection is left, so
\* an acquire that ended earlier discharges nothing: every later moment
\* with a waiting caller and an available connection needs a new outcome.
C11_AcquireProgressOrConstructionFailure ==
    ((\E t \in Threads : Waiting(t)) /\ Available)
        ~> (\E u \in Threads : AcquireReturned(u) \/ ConstructionRaising(u))

\* C11 witness: while one caller stays parked with the factory's error of
\* its last acquire, another caller that had to wait for the lock behind
\* it has been handed a newly created connection.
C11_Witness ==
    \E t, u \in Threads :
        /\ t # u
        /\ ConstructionFailed(u)
        /\ AcquireReturned(t) /\ connection[t] \notin closed
        /\ IdleCount(connection[t]) = 0
        /\ _conn_created = connection[t]

\* C12 (lock discipline), as claimed: every step that changes the idle list
\* or the created count, the append of _put_connection included, is taken
\* by a thread that holds the pool lock.
C12_MutationsUnderLock ==
    [][ (_pool' # _pool \/ _conn_created' # _conn_created) =>
            \E t \in Threads : pc'[t] # pc[t] /\ _lock = t ]_vars

\* C13 (lock released while waiting), as claimed: in no reachable state is
\* a thread in the backoff wait of acquire while it holds the pool lock.
C13_NoSleepUnderLock ==
    \A t \in Threads : pc[t] = "sleep" => _lock # t

\* Connections currently lent: handed out by _get_connection to a session
\* that has neither put them back nor returned.
CheckedOut == {c \in opened : \E t \in Threads : Holds(t, c)}

\* Connections that are counted in created but are neither idle nor lent:
\* their session ended without a release.
Lost == {c \in opened : IdleCount(c) = 0 /\ \A t \in Threads : ~Holds(t, c)}

\* Threads between the creation of a connection (line 73 / 145) and the
\* increment of the count (line 74 / 146).
InFlight == {t \in Threads : pc[t] = "incr"}

\* C14 (bookkeeping invariant), as claimed, read at the instants when no
\* thread is inside the locked section of acquire: created equals the
\* number of idle connections plus the number of lent connections, and
\* 0 <= |idle| <= created.
C14_CreatedIsIdlePlusLent ==
    /\ Len(_pool) <= _conn_created
    /\ _lock = None => _conn_created = Len(_pool) + Cardinality(CheckedOut)

\* C14, amended: created equals the number of idle connections plus the
\* number of lent connections plus the number of connections whose session
\* ended without a release (closed after a database error, or left open
\* after another exception or a failed commit), except that created is one
\* less while a thread is between creating a connection and counting it;
\* and 0 <= |idle| <= created.
C14_CreatedIsIdlePlusLentPlusLost ==
    /\ Len(_pool) <= _conn_created
    /\ _conn_created + Cardinality(InFlight)
          = Len(_pool) + Cardinality(CheckedOut) + Cardinality(Lost)
    /\ Cardinality(InFlight) <= 1
    /\ closed \subseteq (Lost \cup CheckedOut)

\* C14 witness: created is at capacity with one connection idle or lent
\* and one lost to a session that closed it and has returned.
C14_Witness ==
    /\ _conn_created = pool_size
    /\ Len(_pool) + Cardinality(CheckedOut) = 1
    /\ \E t \in Threads :
        /\ Returned(t) /\ closes[t] = 1
        /\ connection[t] \in Lost

\* C15 (session terminal states, no leak), as claimed: every session that
\* ran its unit of work and has returned either released its connection
\* (one put, no close) or discarded it (one close, no put); and every
\* created connection is idle, closed, or held by a running session.
C15_ReleasedOrDiscarded ==
    /\ \A t \in Threads :
          Returned(t) => \/ puts[t] = 1 /\ closes[t] = 0
                         \/ puts[t] = 0 /\ closes[t] = 1
    /\ \A c \in opened :
          \/ IdleCount(c) >= 1
          \/ c \in closed
          \/ \E t \in Threads : Holds(t, c)

\* Open connections that are lent to a session.
LentOpen == {c \in Live : \E t \in Threads : Holds(t, c)}

\* C16 (permanent capacity loss): no step decrements created and no closed
\* connection is reopened; at most capacity minus the number of discarded
\* connections are idle or lent; and once capacity connections have been
\* discarded, no step takes a caller out of acquire, neither with a
\* connection nor with an error.
C16_PermanentCapacityLoss ==
    [][ /\ _conn_created' >= _conn_created
        /\ closed \subseteq closed'
        /\ Len(_pool) + Cardinality(LentOpen) <= pool_size - Cardinality(closed)
        /\ Cardinality(closed) = pool_size =>
              \A t \in Threads :
                  /\ Waiting(t) => Waiting(t)'
                  /\ exc'[t] \in {"none", exc[t]} ]_vars

\* C16 witness: every slot has been discarded and a caller is back in the
\* backoff wait after having slept already.
C16_Witness ==
    /\ Cardinality(closed) = pool_size
    /\ \E t \in Threads : waited[t] /\ pc[t] = "sleep"

\* C17 (no poisoned connection in idle): every connection in the idle list
\* is open and occurs there once; a closed connection is not in idle.
C17_IdleIsOpenAndUnique ==
    /\ \A i \in DOMAIN _pool : _pool[i] \in Live /\ IdleCount(_pool[i]) = 1
    /\ \A c \in closed : IdleCount(c) = 0

\* C17 witness: a session has closed its connection after a failure and
\* has returned, while another connection is idle.
C17_Witness ==
    /\ Len(_pool) >= 1
    /\ \E t \in Threads :
        /\ Returned(t) /\ closes[t] = 1
        /\ connection[t] \in closed

\* C18 (construction failure): the step in which the connection factory
\* raises inside acquire hands the factory's error to the caller, leaves
\* created, idle and the sets of opened and closed connections unchanged
\* and releases the pool lock; a session that ended this way holds no
\* lock, no connection and no cursor and has closed and released nothing.
C18_ConstructionFailure ==
    [][ /\ \A t \in Threads :
              (pc[t] = "create" /\ pc'[t] = "raised") =>
                  /\ exc'[t] = "ConnectError"
                  /\ _conn_created' = _conn_created
                  /\ _pool' = _pool
                  /\ opened' = opened /\ closed' = closed
                  /\ _lock = t /\ _lock' = None
        /\ \A t \in Threads :
              (pc[t] = "raised" /\ pc'[t] # "raised") =>
                  pc'[t] = "done" /\ exc'[t] = "ConnectError"
        /\ \A t \in Threads :
              (ConstructionRaising(t) \/ ConstructionFailed(t)) =>
                  /\ _lock # t
                  /\ connection[t] = None /\ cursor_[t] = "none"
                  /\ closes[t] = 0 /\ puts[t] = 0 ]_vars

\* C18 witness: one caller's acquire has ended with the factory's error,
\* and after it another caller has taken the lock and created a connection.
C18_Witness ==
    \E t, u \in Threads :
        /\ t # u
        /\ ConstructionFailed(t)
        /\ _lock = u /\ pc[u] = "incr"

\* C19 (acquire order), as claimed: a pop returns the last element of the
\* idle list (the most recently released connection) and creates nothing;
\* a new connection is created only in a state where idle is empty and
\* created < capacity, and created then goes up by exactly one.
C19_AcquireOrder ==
    [][ /\ \A t \in Threads :
              (pc[t] = "pop" /\ pc'[t] # "pop") =>
                  /\ connection'[t] = _pool[Len(_pool)]
                  /\ _pool' = SubSeq(_pool, 1, Len(_pool) - 1)
                  /\ opened' = opened /\ _conn_created' = _conn_created
        /\ opened' # opened =>
              Len(_pool) = 0 /\ _conn_created < pool_size
        /\ _conn_created' # _conn_created =>
              _conn_created' = _conn_created + 1 ]_vars

====
